---- MODULE Spec2Model ----
(***************************************************************************)
(* MediCoordinator: the coordinator (src/main.py), the classifier          *)
(* (src/agents/orchestrator.py), the three responders (src/agents/*.py)    *)
(* and the metrics ledger (src/analytics/metrics_tracker.py).              *)
(*                                                                         *)
(* Python str values that the code searches or slices are sequences of     *)
(* one-character strings; str values the code only stores and compares are *)
(* TLA+ strings.  Python floats are exact rationals <<n, d>> in lowest     *)
(* terms.  Time is a logical clock in seconds that advances on every       *)
(* completion-service call.                                                *)
(***************************************************************************)
EXTENDS Integers, Sequences, FiniteSets, TLC

\* ------------------------------------------------------------- bounds
\* process_request calls per run
MaxCalls == 2
\* fragments concatenated into a classifier reply (SpecAnalyze)
MaxFrags == 2
\* largest limit passed to get_recent_requests
MaxLimit == 1
\* longest agents_used list passed to log_request on its own (SpecSavings)
MaxAgentList == 3
\* records logged before the ledger is queried on its own (SpecLedger)
MaxLedger == 3
\* execute calls made on the responders directly (SpecResponder)
MaxInvocations == 3

\* ------------------------------------------------------------- str
UpperCase == <<"A","B","C","D","E","F","G","H","I","J","K","L","M","N","O","P","Q","R","S","T","U","V","W","X","Y","Z">>
LowerCase == <<"a","b","c","d","e","f","g","h","i","j","k","l","m","n","o","p","q","r","s","t","u","v","w","x","y","z">>

\* str.lower() on one character
lower_char(c) ==
    IF \E i \in 1..Len(UpperCase) : UpperCase[i] = c
    THEN LowerCase[CHOOSE i \in 1..Len(UpperCase) : UpperCase[i] = c]
    ELSE c

\* str.lower()
lower(s) == [i \in 1..Len(s) |-> lower_char(s[i])]

\* the Python test `needle in hay` on two str values
str_in(needle, hay) ==
    \E i \in 1..(Len(hay) - Len(needle) + 1) :
        SubSeq(hay, i, i + Len(needle) - 1) = needle

\* the Python slice s[:n]
slice_to(s, n) == SubSeq(s, 1, IF Len(s) < n THEN Len(s) ELSE n)

\* the Python test `x in xs` on a list
list_in(x, xs) == \E i \in 1..Len(xs) : xs[i] = x

\* ------------------------------------------------------------- float
RECURSIVE GCD(_, _)
GCD(a, b) == IF b = 0 THEN a ELSE GCD(b, a % b)

Abs(x) == IF x < 0 THEN 0 - x ELSE x

\* the rational n/d (d # 0) in lowest terms with a positive denominator
Rat(n, d) ==
    LET g == GCD(Abs(n), Abs(d))
        s == IF d < 0 THEN 0 - 1 ELSE 1
    IN  <<(s * n) \div g, (s * d) \div g>>

RatInt(i) == <<i, 1>>
RatAdd(x, y) == Rat(x[1] * y[2] + y[1] * x[2], x[2] * y[2])
RatMul(x, y) == Rat(x[1] * y[1], x[2] * y[2])
RatDiv(x, y) == Rat(x[1] * y[2], x[2] * y[1])
RatLess(x, y) == x[1] * y[2] < y[1] * x[2]

RECURSIVE RatSum(_)
RatSum(xs) == IF xs = <<>> THEN RatInt(0) ELSE RatAdd(Head(xs), RatSum(Tail(xs)))

\* a round(x, 2) that cuts the digits off
round2_truncating(x) == Rat((x[1] * 100) \div x[2], 100)

\* round(x, 2) for x >= 0: nearest multiple of 1/100, ties to even
round2(x) ==
    LET n == x[1] * 100
        q == n \div x[2]
        r == n % x[2]
        up == \/ 2 * r > x[2]
              \/ 2 * r = x[2] /\ q % 2 = 1
    IN  Rat(IF up THEN q + 1 ELSE q, 100)

\* ------------------------------------------------------------- completion service
\* exceptions the completion-service call raises inside a try block
Errors ==
    { [cls |-> "AuthenticationError", args |-> "401 Unauthorized"],
      [cls |-> "APITimeoutError", args |-> "Request timed out."] }

\* str(e)
str(e) == e.args

Raise(e) == [kind |-> "raise", exc |-> e]
Reply(text) == [kind |-> "reply", content |-> text]

\* texts the service returns to a responder
ServiceTexts == {"STATUS: SUFFICIENT", "STATUS: CRITICAL"}

ResponderOutcomes == {Raise(e) : e \in Errors} \cup {Reply(t) : t \in ServiceTexts}

\* ------------------------------------------------------------- classifier
kw_supply_chain == <<"s","u","p","p","l","y","_","c","h","a","i","n">>
kw_clinical == <<"c","l","i","n","i","c","a","l">>
kw_discharge == <<"d","i","s","c","h","a","r","g","e">>
kw_HIGH == <<"H","I","G","H">>

\* agents_needed without the case folding
parse_agents_case_sensitive(analysis) ==
    (IF str_in(kw_supply_chain, analysis) THEN <<"supply_chain_agent">> ELSE <<>>)
    \o (IF str_in(kw_clinical, analysis) THEN <<"clinical_agent">> ELSE <<>>)
    \o (IF str_in(kw_discharge, analysis) THEN <<"discharge_agent">> ELSE <<>>)

parse_agents(analysis) ==
    (IF str_in(kw_supply_chain, lower(analysis)) THEN <<"supply_chain_agent">> ELSE <<>>)
    \o (IF str_in(kw_clinical, lower(analysis)) THEN <<"clinical_agent">> ELSE <<>>)
    \o (IF str_in(kw_discharge, lower(analysis)) THEN <<"discharge_agent">> ELSE <<>>)

\* a priority test that folds the case of the reply
parse_priority_any_case(analysis) ==
    IF str_in(lower(kw_HIGH), lower(analysis)) THEN "HIGH" ELSE "MEDIUM"

parse_priority(analysis) ==
    IF str_in(kw_HIGH, analysis) THEN "HIGH" ELSE "MEDIUM"

\* an except branch that reports the failure without the "error" key
analyze_error_unmarked(e) ==
    [agents_needed |-> <<>>, priority |-> "UNKNOWN"]

analyze_error(e) ==
    [error |-> str(e), agents_needed |-> <<>>, priority |-> "UNKNOWN"]

analyze_request(outcome, request) ==
    IF outcome.kind = "raise"
    THEN analyze_error(outcome.exc)
    ELSE [ agents_needed |-> parse_agents(outcome.content),
           priority |-> parse_priority(outcome.content),
           analysis |-> outcome.content,
           original_request |-> request ]

\* the Python test `"error" in d` on a dict
has_error(d) == "error" \in DOMAIN d

\* ------------------------------------------------------------- responders
InitInventory ==
    [ blood_o_positive |-> 50, blood_ab_negative |-> 12, surgical_gloves |-> 1000,
      anesthesia_propofol |-> 100, sterile_instruments |-> 50, iv_fluids |-> 200 ]

\* the age is kept as the text the prompt's f-string makes of it
InitPatients ==
    [ p \in {"patient_123"} |->
        [ name |-> "Jane Doe", age |-> "32", allergies |-> <<>>,
          current_medications |-> <<>>, conditions |-> <<"pregnancy">> ] ]

RequiredItems == <<"blood_o_positive", "anesthesia_propofol", "sterile_instruments">>

\* dict.get(key, default)
dict_get(d, key, default) == IF key \in DOMAIN d THEN d[key] ELSE default

EmptyDict == [x \in {} |-> x]

\* an except branch that returns an analysed result
responder_error_swallowed(e) == [status |-> "analyzed", analysis |-> str(e)]

\* the except branch shared by the three responders
responder_error(e) == [error |-> str(e), status |-> "error"]

check_supplies(outcome, required_items, inv) ==
    IF outcome.kind = "raise"
    THEN responder_error(outcome.exc)
    ELSE [ status |-> "analyzed",
           required_items |-> required_items,
           current_inventory |-> inv,
           analysis |-> outcome.content ]

check_safety(outcome, pid, proposed_treatment) ==
    IF outcome.kind = "raise"
    THEN responder_error(outcome.exc)
    ELSE [ status |-> "analyzed",
           patient_id |-> pid,
           treatment |-> proposed_treatment,
           analysis |-> outcome.content ]

create_discharge_plan(outcome, pid, condition) ==
    IF outcome.kind = "raise"
    THEN responder_error(outcome.exc)
    ELSE [ status |-> "plan_created",
           patient_id |-> pid,
           plan |-> outcome.content ]

\* a check that takes the required items out of stock
inventory_after_check_decrementing(inv, required_items) ==
    [k \in DOMAIN inv |-> IF list_in(k, required_items) THEN inv[k] - 1 ELSE inv[k]]

\* self.inventory once check_supplies has run: the method only reads it
inventory_after_check(inv, required_items) == inv

\* a lookup that files an empty record under a missing id, as dict.setdefault does
patients_after_lookup_setdefault(pats, pid) ==
    IF pid \in DOMAIN pats THEN pats ELSE (pid :> EmptyDict) @@ pats

\* self.patients once check_safety has run: self.patients.get(patient_id, {})
\* adds no entry
patients_after_lookup(pats, pid) == pats

\* the user message each component sends to the service
supply_prompt(required_items, inv) ==
    [required_items |-> required_items, inventory |-> inv]

clinical_prompt(pats, pid, proposed_treatment) ==
    LET patient == dict_get(pats, pid, EmptyDict) IN
    [ name |-> dict_get(patient, "name", "Unknown"),
      age |-> dict_get(patient, "age", "Unknown"),
      allergies |-> dict_get(patient, "allergies", <<"None">>),
      current_medications |-> dict_get(patient, "current_medications", <<"None">>),
      conditions |-> dict_get(patient, "conditions", <<"None">>),
      treatment |-> proposed_treatment ]

discharge_prompt(pid, condition) == [patient |-> pid, condition |-> condition]

classifier_prompt(request) == [request |-> request]

\* ------------------------------------------------------------- metrics ledger
MANUAL_SURGERY_PREP_TIME == 35
MANUAL_SAFETY_CHECK_TIME == 12
MANUAL_DISCHARGE_PLAN_TIME == 120
CLINICAL_STAFF_COST_PER_HOUR == 85
ADMIN_STAFF_COST_PER_HOUR == 45

\* a time saved that counts a responder once for each time the list names it
RECURSIVE calculate_time_saved_per_occurrence(_)
calculate_time_saved_per_occurrence(agents_used) ==
    IF agents_used = <<>> THEN 0
    ELSE (CASE Head(agents_used) = "supply_chain_agent" -> MANUAL_SURGERY_PREP_TIME
            [] Head(agents_used) = "clinical_agent" -> MANUAL_SAFETY_CHECK_TIME
            [] Head(agents_used) = "discharge_agent" -> MANUAL_DISCHARGE_PLAN_TIME
            [] OTHER -> 0)
         + calculate_time_saved_per_occurrence(Tail(agents_used))

calculate_time_saved(agents_used) ==
    (IF list_in("supply_chain_agent", agents_used) THEN MANUAL_SURGERY_PREP_TIME ELSE 0)
    + (IF list_in("clinical_agent", agents_used) THEN MANUAL_SAFETY_CHECK_TIME ELSE 0)
    + (IF list_in("discharge_agent", agents_used) THEN MANUAL_DISCHARGE_PLAN_TIME ELSE 0)

calculate_cost_saved(agents_used) ==
    LET time_saved_hours == Rat(calculate_time_saved(agents_used), 60)
        avg_cost == Rat(CLINICAL_STAFF_COST_PER_HOUR + ADMIN_STAFF_COST_PER_HOUR, 2)
    IN  RatMul(time_saved_hours, avg_cost)

request_data(request_type, agents_used, response_time, status, now) ==
    [ timestamp |-> now,
      request_type |-> request_type,
      agents_used |-> agents_used,
      response_time |-> response_time,
      status |-> status,
      time_saved |-> calculate_time_saved(agents_used),
      cost_saved |-> calculate_cost_saved(agents_used) ]

\* a log_request that keeps only the newest record
log_request_overwrite(reqs, request_type, agents_used, response_time, status, now) ==
    <<request_data(request_type, agents_used, response_time, status, now)>>

\* a log_request that puts the new record first
log_request_prepend(reqs, request_type, agents_used, response_time, status, now) ==
    <<request_data(request_type, agents_used, response_time, status, now)>> \o reqs

\* self.requests after log_request
log_request(reqs, request_type, agents_used, response_time, status, now) ==
    Append(reqs, request_data(request_type, agents_used, response_time, status, now))

SecondsPerHour == 3600
HoursPerDay == 24
HoursPerYear == 8760

get_summary_stats(reqs, now, started) ==
    IF reqs = <<>>
    THEN [ total_requests |-> 0,
           avg_response_time |-> RatInt(0),
           total_time_saved_hours |-> RatInt(0),
           total_cost_saved |-> RatInt(0),
           uptime_hours |-> RatInt(0) ]
    ELSE LET total_time_saved == RatSum([i \in 1..Len(reqs) |-> RatInt(reqs[i].time_saved)])
             total_cost_saved == RatSum([i \in 1..Len(reqs) |-> reqs[i].cost_saved])
             avg_response_time ==
                 RatDiv(RatSum([i \in 1..Len(reqs) |-> RatInt(reqs[i].response_time)]),
                        RatInt(Len(reqs)))
             uptime == Rat(now - started, SecondsPerHour)
         IN  [ total_requests |-> Len(reqs),
               avg_response_time |-> round2(avg_response_time),
               total_time_saved_hours |-> round2(RatDiv(total_time_saved, RatInt(60))),
               total_cost_saved |-> round2(total_cost_saved),
               daily_cost_saved |->
                   round2(IF RatLess(RatInt(0), uptime)
                          THEN RatMul(total_cost_saved, RatDiv(RatInt(HoursPerDay), uptime))
                          ELSE RatInt(0)),
               annual_projection |->
                   round2(IF RatLess(RatInt(0), uptime)
                          THEN RatMul(total_cost_saved, RatDiv(RatInt(HoursPerYear), uptime))
                          ELSE RatInt(0)),
               uptime_hours |-> round2(uptime) ]

\* the Python slice reqs[-limit:] for limit >= 0 (reqs[-0:] is the whole list)
get_recent_requests(reqs, limit) ==
    IF limit = 0 \/ limit >= Len(reqs)
    THEN reqs
    ELSE SubSeq(reqs, Len(reqs) - limit + 1, Len(reqs))

\* ------------------------------------------------------------- inputs
\* an emergency request longer than a request label, for the seeded patient, and
\* a short discharge request for a patient id that has no record
Scenarios ==
    { [ request |-> <<"E","m","e","r","g","e","n","c","y"," ","C","-","s","e","c","t","i","o","n"," ","i","n"," ","O","R","-","3",":"," ","c","h","e","c","k"," ","s","u","p","p","l","i","e","s",","," ","p","a","t","i","e","n","t"," ","s","a","f","e","t","y">>,
        patient_id |-> "patient_123" ],
      [ request |-> <<"D","i","s","c","h","a","r","g","e"," ","r","o","o","m"," ","3","0","2">>,
        patient_id |-> "patient_302" ] }

\* replies of the classifier's service call used in coordination runs
DemoReplies ==
    { <<"n","o","n","e"," ","L","O","W">>,
      <<"s","u","p","p","l","y","_","c","h","a","i","n","_","a","g","e","n","t",","," ","c","l","i","n","i","c","a","l","_","a","g","e","n","t"," ","M","E","D","I","U","M">>,
      <<"d","i","s","c","h","a","r","g","e","_","a","g","e","n","t"," ","H","I","G","H">>,
      <<"S","u","p","p","l","y","_","C","h","a","i","n",","," ","C","l","i","n","i","c","a","l",","," ","D","i","s","c","h","a","r","g","e"," ","H","I","G","H">> }

\* a reply that names a responder only to rule it out
FalsePositiveReply == <<"s","u","p","p","l","y","_","c","h","a","i","n","_","a","g","e","n","t"," ","h","i","g","h",";"," ","c","l","i","n","i","c","a","l"," ","a","g","e","n","t"," ","n","o","t"," ","r","e","q","u","i","r","e","d">>

ClassifierOutcomes == {Raise(e) : e \in Errors} \cup {Reply(t) : t \in DemoReplies}

\* pieces of reply text, concatenated into replies for analyze_request
Fragments ==
    { <<"s","u","p","p","l","y","_","c","h","a","i","n">>, <<"S","U","P","P","L","Y","_">>, <<"C","h","a","i","n">>, <<"s","u","p","p","l","y"," ","c","h","a","i","n">>,
      <<"c","l","i","n","i","c","a","l">>, <<"C","l","i","n">>, <<"I","C","A","L"," ","a","g","e","n","t"," ","n","o","t"," ","r","e","q","u","i","r","e","d">>,
      <<"d","i","s","c","h","a","r","g","e">>, <<"D","i","s">>, <<"c","h","a","r","g","e">>,
      <<"H","I","G","H">>, <<"H","I">>, <<"G","H">>, <<"h","i","g","h">>, <<"L","O","W">>, <<" ">> }

RECURSIVE Concats(_)
Concats(n) ==
    IF n = 0 THEN {<<>>}
    ELSE LET prev == Concats(n - 1) IN prev \cup {p \o f : p \in prev, f \in Fragments}

AnalyzeOutcomes ==
    {Raise(e) : e \in Errors} \cup {Reply(t) : t \in Concats(MaxFrags) \cup DemoReplies \cup {FalsePositiveReply}}

\* ------------------------------------------------------------- state
VARIABLES
    pc,          \* where process_request stands: "idle" between calls
    request,     \* process_request's argument request
    patient_id,  \* process_request's argument patient_id
    routing,     \* the routing decision of the latest classification
    results,     \* process_request's local dict results
    t_start,     \* process_request's local start_time
    returned,    \* what the latest process_request call returned (None until it does)
    requests,    \* tracker.requests, the metrics ledger
    start_time,  \* tracker.start_time
    inventory,   \* SupplyChainAgent.inventory
    patients,    \* ClinicalAgent.patients
    calls,       \* the completion-service calls of the latest operation, in order
    clock,       \* time.time()
    queried,     \* what the latest ledger query returned to the dashboard
    nCalls,      \* process_request calls made so far
    nClassified, \* those of them that got past the classifier's error check
    invocations  \* the responders' execute calls made directly, with their results

vars == << pc, request, patient_id, routing, results, t_start, returned, requests,
           start_time, inventory, patients, calls, clock, queried, nCalls, nClassified,
           invocations >>

None == [type |-> "NoneType"]

Init ==
    /\ pc = "idle"
    /\ request = <<>>
    /\ patient_id = "patient_123"
    /\ routing = None
    /\ results = EmptyDict
    /\ t_start = 0
    /\ returned = None
    /\ requests = <<>>
    /\ start_time = 0
    /\ inventory = InitInventory
    /\ patients = InitPatients
    /\ calls = <<>>
    /\ clock = 0
    /\ queried = None
    /\ nCalls = 0
    /\ nClassified = 0
    /\ invocations = <<>>

\* time.time() once a completion-service call has returned: the logical clock
\* gives every call one hour, which keeps the projections of get_summary_stats
\* within TLC's integers
after_service_call(now) == now + SecondsPerHour

\* one self.client.chat.completions.create call
service_call(client, prompt, outcome) ==
    [client |-> client, prompt |-> prompt, outcome |-> outcome]

\* a guard that runs every agent
agent_needed_always(agent, agents_needed) == TRUE

\* the guard `"<agent>" in agents_needed` of an agent's step
agent_needed(agent, agents_needed) == list_in(agent, agents_needed)

\* process_request up to the start of the timer: orchestrator.coordinate, the
\* early return on a classifier error, the locals of the call
Coordinate ==
    /\ pc = "idle"
    /\ nCalls < MaxCalls
    /\ \E sc \in Scenarios, o \in ClassifierOutcomes :
        LET r == analyze_request(o, sc.request) IN
        /\ request' = sc.request
        /\ patient_id' = sc.patient_id
        /\ calls' = <<service_call("orchestrator", classifier_prompt(sc.request), o)>>
        /\ clock' = after_service_call(clock)
        /\ routing' = r
        /\ results' = EmptyDict
        /\ queried' = None
        /\ nCalls' = nCalls + 1
        /\ returned' = None
        /\ IF has_error(r)
           THEN /\ pc' = "idle"
                /\ t_start' = t_start
                /\ nClassified' = nClassified
           ELSE /\ pc' = "supply"
                /\ t_start' = clock'
                /\ nClassified' = nClassified + 1
    /\ UNCHANGED << requests, start_time, inventory, patients, invocations >>

\* a coordinator that gives up on the remaining responders after a failure
step_after_abort_on_error(res, following) ==
    IF \E k \in DOMAIN res : has_error(res[k]) THEN "finish" ELSE following

\* where process_request goes after an agent's step: on to the next statement,
\* whatever the results so far
step_after(res, following) == following

\* supply_chain.execute when agents_needed names it
ExecSupply ==
    /\ pc = "supply"
    /\ IF agent_needed("supply_chain_agent", routing.agents_needed)
       THEN \E o \in ResponderOutcomes :
            /\ calls' = Append(calls, service_call("supply_chain",
                                   supply_prompt(RequiredItems, inventory), o))
            /\ clock' = after_service_call(clock)
            /\ results' = ("supply_chain" :> check_supplies(o, RequiredItems, inventory))
                          @@ results
            /\ inventory' = inventory_after_check(inventory, RequiredItems)
       ELSE UNCHANGED << calls, clock, results, inventory >>
    /\ pc' = step_after(results', "clinical")
    /\ UNCHANGED << request, patient_id, routing, t_start, returned, requests,
                    start_time, patients, queried, nCalls, nClassified, invocations >>

\* clinical.execute when agents_needed names it
ExecClinical ==
    /\ pc = "clinical"
    /\ IF agent_needed("clinical_agent", routing.agents_needed)
       THEN \E o \in ResponderOutcomes :
            /\ calls' = Append(calls, service_call("clinical",
                                   clinical_prompt(patients, patient_id, request), o))
            /\ clock' = after_service_call(clock)
            /\ results' = ("clinical" :> check_safety(o, patient_id, request)) @@ results
            /\ patients' = patients_after_lookup(patients, patient_id)
       ELSE UNCHANGED << calls, clock, results, patients >>
    /\ pc' = step_after(results', "discharge")
    /\ UNCHANGED << request, patient_id, routing, t_start, returned, requests,
                    start_time, inventory, queried, nCalls, nClassified, invocations >>

\* discharge.execute when agents_needed names it
ExecDischarge ==
    /\ pc = "discharge"
    /\ IF agent_needed("discharge_agent", routing.agents_needed)
       THEN \E o \in ResponderOutcomes :
            /\ calls' = Append(calls, service_call("discharge",
                                   discharge_prompt(patient_id, request), o))
            /\ clock' = after_service_call(clock)
            /\ results' = ("discharge" :> create_discharge_plan(o, patient_id, request))
                          @@ results
       ELSE UNCHANGED << calls, clock, results >>
    /\ pc' = step_after(results', "finish")
    /\ UNCHANGED << request, patient_id, routing, t_start, returned, requests,
                    start_time, inventory, patients, queried, nCalls, nClassified, invocations >>

\* a status that ignores the responders' results
outcome_status_always_approved(res) == "approved"

\* all_safe and status of process_request
outcome_status(res) ==
    LET all_safe == \A k \in DOMAIN res : ~has_error(res[k])
    IN  IF all_safe THEN "approved" ELSE "review_required"

RequestLabelLen == 50

\* a ledger entry that credits only the responders that returned no error
agents_used_successful(agents_needed, res) ==
    LET key(a) == CASE a = "supply_chain_agent" -> "supply_chain"
                    [] a = "clinical_agent" -> "clinical"
                    [] a = "discharge_agent" -> "discharge"
                    [] OTHER -> a
    IN  SelectSeq(agents_needed,
                  LAMBDA a : key(a) \in DOMAIN res /\ ~has_error(res[key(a)]))

\* the agents_used argument of tracker.log_request: agents_needed as it is
agents_used(agents_needed, res) == agents_needed

\* statistics computed on the ledger as it stood before this call's record
ledger_at_stats_before_log(before, after) == before

\* tracker.requests when get_summary_stats reads it, log_request having returned
ledger_at_stats(before, after) == after

\* the rest of process_request: response time, status, log_request,
\* get_summary_stats, the composite result
Finish ==
    /\ pc = "finish"
    /\ pc' = "idle"
    /\ LET response_time == clock - t_start
           status == outcome_status(results)
           logged == log_request(requests, slice_to(request, RequestLabelLen),
                                 agents_used(routing.agents_needed, results),
                                 response_time, status, clock)
           stats == get_summary_stats(ledger_at_stats(requests, logged), clock,
                                      start_time)
       IN  /\ requests' = logged
           /\ returned' = [ routing |-> routing, results |-> results,
                            status |-> status, metrics |-> stats ]
    /\ UNCHANGED << request, patient_id, routing, results, t_start, start_time,
                    inventory, patients, calls, clock, queried, nCalls, nClassified, invocations >>

\* the dashboard reading the aggregate statistics
GetSummaryStats ==
    /\ pc = "idle"
    /\ queried' = [stats |-> get_summary_stats(requests, clock, start_time)]
    /\ UNCHANGED << pc, request, patient_id, routing, results, t_start, returned,
                    requests, start_time, inventory, patients, calls, clock, nCalls,
                    nClassified, invocations >>

\* the dashboard reading the recent requests
GetRecentRequests ==
    /\ pc = "idle"
    /\ \E limit \in 0..MaxLimit :
        queried' = [limit |-> limit, recent |-> get_recent_requests(requests, limit)]
    /\ UNCHANGED << pc, request, patient_id, routing, results, t_start, returned,
                    requests, start_time, inventory, patients, calls, clock, nCalls,
                    nClassified, invocations >>

Next ==
    \/ Coordinate
    \/ ExecSupply
    \/ ExecClinical
    \/ ExecDischarge
    \/ Finish
    \/ GetSummaryStats
    \/ GetRecentRequests

Spec == Init /\ [][Next]_vars

\* ------------------------------------------------------------- analyze_request alone
\* orchestrator.analyze_request called on its own with a reply built of fragments
AnalyzeRequest ==
    /\ pc = "idle"
    /\ calls = <<>>
    /\ \E sc \in Scenarios, o \in AnalyzeOutcomes :
        /\ request' = sc.request
        /\ calls' = <<service_call("orchestrator", classifier_prompt(sc.request), o)>>
        /\ routing' = analyze_request(o, sc.request)
    /\ clock' = after_service_call(clock)
    /\ UNCHANGED << pc, patient_id, results, t_start, returned, requests, start_time,
                    inventory, patients, queried, nCalls, nClassified, invocations >>

NextAnalyze == AnalyzeRequest

SpecAnalyze == Init /\ [][NextAnalyze]_vars

\* ------------------------------------------------------------- log_request alone
\* the ids a caller may put in agents_used: the three responders and one id the
\* minutes table does not know
AgentIds == {"supply_chain_agent", "clinical_agent", "discharge_agent", "triage_agent"}

\* the lists of at most n ids, repeated ids and any order included
RECURSIVE AgentLists(_)
AgentLists(n) ==
    IF n = 0 THEN {<<>>}
    ELSE LET prev == AgentLists(n - 1) IN prev \cup {Append(p, a) : p \in prev, a \in AgentIds}

\* response times, in seconds, a caller passes to log_request
ResponseTimes == {1, 2}

\* tracker.log_request called on its own, once, on a fresh ledger
LogRequest ==
    /\ pc = "idle"
    /\ requests = <<>>
    /\ \E sc \in Scenarios, agents \in AgentLists(MaxAgentList), rt \in ResponseTimes :
        requests' = log_request(requests, slice_to(sc.request, RequestLabelLen),
                                agents, rt, "approved", clock)
    /\ UNCHANGED << pc, request, patient_id, routing, results, t_start, returned,
                    start_time, inventory, patients, calls, clock, queried, nCalls,
                    nClassified, invocations >>

NextSavings == LogRequest

SpecSavings == Init /\ [][NextSavings]_vars

\* ------------------------------------------------------------- the ledger alone
\* agents_used lists of logged records: none, supply, supply and clinical, discharge
LedgerAgentLists ==
    { <<>>, <<"supply_chain_agent">>, <<"supply_chain_agent", "clinical_agent">>,
      <<"discharge_agent">> }

\* the tracker right after its construction, or an hour later
InitLedger ==
    /\ pc = "idle"
    /\ request = <<>>
    /\ patient_id = "patient_123"
    /\ routing = None
    /\ results = EmptyDict
    /\ t_start = 0
    /\ returned = None
    /\ requests = <<>>
    /\ start_time = 0
    /\ inventory = InitInventory
    /\ patients = InitPatients
    /\ calls = <<>>
    /\ clock \in {0, SecondsPerHour}
    /\ queried = None
    /\ nCalls = 0
    /\ nClassified = 0
    /\ invocations = <<>>

\* tracker.log_request called on its own, for the empty request
LedgerLog ==
    /\ pc = "idle"
    /\ Len(requests) < MaxLedger
    /\ \E agents \in LedgerAgentLists, rt \in ResponseTimes :
        requests' = log_request(requests, slice_to(request, RequestLabelLen),
                                agents, rt, "approved", clock)
    /\ queried' = None
    /\ UNCHANGED << pc, request, patient_id, routing, results, t_start, returned,
                    start_time, inventory, patients, calls, clock, nCalls, nClassified, invocations >>

NextLedger ==
    \/ LedgerLog
    \/ GetSummaryStats
    \/ GetRecentRequests

SpecLedger == InitLedger /\ [][NextLedger]_vars

\* ------------------------------------------------------------- the responders alone
\* required_items lists a caller passes to supply_chain.execute
RequiredItemLists == {RequiredItems, <<"iv_fluids">>}

\* one execute call as its caller sees it: the arguments, what the completion
\* service did, the dict returned
invocation(responder, args, outcome, result) ==
    [responder |-> responder, args |-> args, outcome |-> outcome, result |-> result]

\* supply_chain.execute called on its own
InvokeSupply ==
    /\ pc = "idle"
    /\ Len(invocations) < MaxInvocations
    /\ \E items \in RequiredItemLists, o \in ResponderOutcomes :
        /\ calls' = <<service_call("supply_chain", supply_prompt(items, inventory), o)>>
        /\ invocations' = Append(invocations,
                                 invocation("supply_chain", <<items>>, o,
                                            check_supplies(o, items, inventory)))
        /\ inventory' = inventory_after_check(inventory, items)
    /\ clock' = after_service_call(clock)
    /\ UNCHANGED << pc, request, patient_id, routing, results, t_start, returned,
                    requests, start_time, patients, queried, nCalls, nClassified >>

\* clinical.execute called on its own
InvokeClinical ==
    /\ pc = "idle"
    /\ Len(invocations) < MaxInvocations
    /\ \E sc \in Scenarios, o \in ResponderOutcomes :
        /\ calls' = <<service_call("clinical",
                                   clinical_prompt(patients, sc.patient_id, sc.request), o)>>
        /\ invocations' = Append(invocations,
                                 invocation("clinical", <<sc.patient_id, sc.request>>, o,
                                            check_safety(o, sc.patient_id, sc.request)))
        /\ patients' = patients_after_lookup(patients, sc.patient_id)
    /\ clock' = after_service_call(clock)
    /\ UNCHANGED << pc, request, patient_id, routing, results, t_start, returned,
                    requests, start_time, inventory, queried, nCalls, nClassified >>

\* discharge.execute called on its own
InvokeDischarge ==
    /\ pc = "idle"
    /\ Len(invocations) < MaxInvocations
    /\ \E sc \in Scenarios, o \in ResponderOutcomes :
        /\ calls' = <<service_call("discharge",
                                   discharge_prompt(sc.patient_id, sc.request), o)>>
        /\ invocations' = Append(invocations,
                                 invocation("discharge", <<sc.patient_id, sc.request>>, o,
                                            create_discharge_plan(o, sc.patient_id,
                                                                  sc.request)))
    /\ clock' = after_service_call(clock)
    /\ UNCHANGED << pc, request, patient_id, routing, results, t_start, returned,
                    requests, start_time, inventory, patients, queried, nCalls,
                    nClassified >>

NextResponder ==
    \/ InvokeSupply
    \/ InvokeClinical
    \/ InvokeDischarge

SpecResponder == Init /\ [][NextResponder]_vars

\* ------------------------------------------------------------- properties
\* the outcome of the classifier's service call in the latest operation
ClassifierOutcome == calls[1].outcome

\* the latest process_request call has got past the classifier's error check
Classified == nCalls > 0 /\ ClassifierOutcome.kind = "reply"

\* the completion-service calls the responders made in the latest call
ResponderCalls == {calls[i] : i \in 2..Len(calls)}

IsPrefix(s, t) == Len(s) <= Len(t) /\ SubSeq(t, 1, Len(s)) = s

\* C1: a process_request call whose classifier service call fails gets a routing
\* with agents_needed empty and priority UNKNOWN, is over at once with no
\* responder's service call made and no result collected, and leaves the ledger
\* as long as it was.
C1_ClassifierFailureShortCircuits ==
    [][ (nCalls' = nCalls + 1 /\ calls'[1].outcome.kind = "raise")
        => /\ routing'.agents_needed = <<>>
           /\ routing'.priority = "UNKNOWN"
           /\ pc' = "idle"
           /\ Len(calls') = 1
           /\ results' = EmptyDict
           /\ Len(requests') = Len(requests) ]_vars

\* C1 witness: a call failed at the classifier after an earlier call had logged
\* its record.
C1_Witness ==
    /\ pc = "idle"
    /\ nCalls = 2
    /\ ClassifierOutcome.kind = "raise"
    /\ routing.priority = "UNKNOWN"
    /\ Len(requests) = 1

\* C2 as stated: between calls the ledger holds one record per process_request
\* call made so far.
C2_OneRecordPerCall == pc = "idle" => Len(requests) = nCalls

\* C2 amended: between calls the ledger holds one record per process_request
\* call that got past the classifier's error check, and none for the others.
C2_OneRecordPerClassifiedCall ==
    /\ pc = "idle" => Len(requests) = nClassified
    /\ pc # "idle" => Len(requests) = nClassified - 1
    /\ nClassified <= nCalls

\* C2 witness: two calls, one of them stopped at the classifier, one record.
C2_Witness ==
    /\ pc = "idle"
    /\ nCalls = 2
    /\ nClassified = 1
    /\ Len(requests) = 1

\* C3: when the classifier's service call fails, the value process_request
\* returns carries the classifier's error.
C3_ClassifierErrorReturned ==
    (pc = "idle" /\ nCalls > 0 /\ ClassifierOutcome.kind = "raise")
    => \/ has_error(returned) /\ returned.error = ClassifierOutcome.exc.args
       \/ /\ "routing" \in DOMAIN returned
          /\ has_error(returned.routing)
          /\ returned.routing.error = ClassifierOutcome.exc.args

\* two characters are the same letter, whatever their case
SameLetter(a, b) ==
    \/ a = b
    \/ \E k \in 1..Len(UpperCase) : {a, b} = {UpperCase[k], LowerCase[k]}

\* kw occurs in s at some position, letter by letter, case ignored
OccursIgnoringCase(kw, s) ==
    \E i \in 1..Len(s) :
        /\ i + Len(kw) - 1 <= Len(s)
        /\ \A j \in 1..Len(kw) : SameLetter(s[i + j - 1], kw[j])

\* kw occurs in s at some position, character by character
OccursExactly(kw, s) ==
    \E i \in 1..Len(s) :
        /\ i + Len(kw) - 1 <= Len(s)
        /\ \A j \in 1..Len(kw) : s[i + j - 1] = kw[j]

ResponderKeywords ==
    { [agent |-> "supply_chain_agent", keyword |-> kw_supply_chain],
      [agent |-> "clinical_agent", keyword |-> kw_clinical],
      [agent |-> "discharge_agent", keyword |-> kw_discharge] }

\* C4: for a classifier reply received without error, a responder is in
\* agents_needed exactly when its keyword occurs in the reply, case ignored, and
\* nothing else is in agents_needed; the reply that names the clinical responder
\* only to rule it out selects it.
C4_AgentsIffKeyword ==
    (calls # <<>> /\ ClassifierOutcome.kind = "reply")
    => /\ \A r \in ResponderKeywords :
            (\E i \in 1..Len(routing.agents_needed) : routing.agents_needed[i] = r.agent)
            <=> OccursIgnoringCase(r.keyword, ClassifierOutcome.content)
       /\ \A i \in 1..Len(routing.agents_needed) :
            \E r \in ResponderKeywords : routing.agents_needed[i] = r.agent
       /\ ClassifierOutcome.content = FalsePositiveReply
            => \E i \in 1..Len(routing.agents_needed) :
                   routing.agents_needed[i] = "clinical_agent"

\* C4 witness: the reply "clinical agent not required" has selected the clinical
\* responder.
C4_Witness ==
    /\ calls # <<>>
    /\ ClassifierOutcome.kind = "reply"
    /\ ClassifierOutcome.content = FalsePositiveReply
    /\ routing.agents_needed = <<"supply_chain_agent", "clinical_agent">>

\* C5: the priority is HIGH exactly when the reply contains "HIGH" character by
\* character, MEDIUM for every other reply received, and UNKNOWN exactly when
\* the classifier's service call failed.
C5_Priority ==
    calls # <<>>
    => /\ ClassifierOutcome.kind = "reply"
            => routing.priority =
                 (IF OccursExactly(kw_HIGH, ClassifierOutcome.content)
                  THEN "HIGH" ELSE "MEDIUM")
       /\ routing.priority = "UNKNOWN" <=> ClassifierOutcome.kind = "raise"

\* C5 witness: a reply that says "high" in lowercase and LOW got MEDIUM.
C5_Witness ==
    /\ calls # <<>>
    /\ ClassifierOutcome.kind = "reply"
    /\ ClassifierOutcome.content = <<"h","i","g","h">> \o <<"L","O","W">>
    /\ routing.priority = "MEDIUM"

\* the responders in the order of process_request's statements
ResponderOrder ==
    << [agent |-> "supply_chain_agent", client |-> "supply_chain"],
       [agent |-> "clinical_agent", client |-> "clinical"],
       [agent |-> "discharge_agent", client |-> "discharge"] >>

\* the agent steps process_request has behind it
StepsDone ==
    CASE pc = "supply" -> 0
      [] pc = "clinical" -> 1
      [] pc = "discharge" -> 2
      [] OTHER -> 3

\* C6: in a call that got past the classifier, the service calls so far are the
\* classifier's first, then one call for each responder in agents_needed whose
\* turn has come, in the order supply, clinical, discharge, and no call for a
\* responder that agents_needed does not name.
C6_FixedOrder ==
    Classified
    => LET Needed(r) ==
               \E i \in 1..Len(routing.agents_needed) : routing.agents_needed[i] = r.agent
           due == SelectSeq(SubSeq(ResponderOrder, 1, StepsDone), Needed)
       IN  [i \in 1..Len(calls) |-> calls[i].client]
             = <<"orchestrator">> \o [i \in 1..Len(due) |-> due[i].client]

\* C6 witness: a finished call that invoked supply and clinical but not discharge.
C6_Witness ==
    /\ pc = "idle"
    /\ Classified
    /\ routing.agents_needed = <<"supply_chain_agent", "clinical_agent">>
    /\ Len(calls) = 3
    /\ "status" \in DOMAIN returned

\* C7: the status a classified call returns and logs is "approved" exactly when
\* every responder's service call of that call got a reply, and
\* "review_required" otherwise; with no responder invoked it is "approved".
C7_OutcomeStatus ==
    (pc = "idle" /\ Classified)
    => /\ returned.status \in {"approved", "review_required"}
       /\ returned.status = "approved"
            <=> \A c \in ResponderCalls : c.outcome.kind = "reply"
       /\ requests[Len(requests)].status = returned.status
       /\ Len(calls) = 1 => returned.status = "approved"

\* C7 witness: one responder succeeded, the other failed, review_required.
C7_Witness ==
    /\ pc = "idle"
    /\ Classified
    /\ \E c \in ResponderCalls : c.outcome.kind = "reply"
    /\ \E c \in ResponderCalls : c.outcome.kind = "raise"
    /\ returned.status = "review_required"

\* C8: in a classified call in which some responder failed, every responder in
\* agents_needed has been invoked and has a result by the end, the call has
\* appended its record and returned the composite result, and the status is
\* review_required.
C8_ResponderFailureIsPartial ==
    (pc = "idle" /\ Classified /\ \E c \in ResponderCalls : c.outcome.kind = "raise")
    => /\ Len(calls) = 1 + Len(routing.agents_needed)
       /\ Cardinality(DOMAIN results) = Len(routing.agents_needed)
       /\ Len(requests) = nClassified
       /\ requests[Len(requests)].status = "review_required"
       /\ DOMAIN returned = {"routing", "results", "status", "metrics"}
       /\ returned.results = results
       /\ returned.status = "review_required"

\* C8 witness: the supply responder failed first and the two after it ran.
C8_Witness ==
    /\ pc = "idle"
    /\ Classified
    /\ Len(calls) = 4
    /\ calls[2].outcome.kind = "raise"
    /\ calls[4].outcome.kind = "reply"
    /\ returned.status = "review_required"

\* C9: every step leaves the ledger it found as a prefix of the ledger it
\* leaves: records are only ever added at the end.
C9_AppendOnly == [][IsPrefix(requests, requests')]_vars

\* C9 witness: the ledger was queried after two records were appended.
C9_Witness ==
    /\ Len(requests) = 2
    /\ "recent" \in DOMAIN queried

\* C10: every responder invocation makes one service call and leaves a result;
\* when that call fails the result is the error's text under "error" with
\* status "error", nothing else.
C10_ResponderFailureIsData ==
    /\ \A i, j \in 2..Len(calls) : calls[i].client = calls[j].client => i = j
    /\ DOMAIN results = {c.client : c \in ResponderCalls}
    /\ \A c \in ResponderCalls :
         c.outcome.kind = "raise"
         => results[c.client] = [error |-> c.outcome.exc.args, status |-> "error"]

\* C10 witness: all three responders failed and the call still returned.
C10_Witness ==
    /\ pc = "idle"
    /\ Len(calls) = 4
    /\ \A c \in ResponderCalls : c.outcome.kind = "raise"
    /\ "results" \in DOMAIN returned

\* the minutes of manual work credited to each responder
MinutesTable ==
    [supply_chain_agent |-> 35, clinical_agent |-> 12, discharge_agent |-> 120]

RECURSIVE TableMinutes(_)
\* the table minutes of a set of ids, an id outside the table counting nothing
TableMinutes(ids) ==
    IF ids = {} THEN 0
    ELSE LET a == CHOOSE x \in ids : TRUE
         IN  (IF a \in DOMAIN MinutesTable THEN MinutesTable[a] ELSE 0)
             + TableMinutes(ids \ {a})

\* the distinct ids of a list
Ids(xs) == {xs[i] : i \in 1..Len(xs)}

\* C11: the time_saved of a logged record is the sum of the table minutes of the
\* distinct responders its agents_used names (35, 12, 120; none gives 0), and its
\* cost_saved c satisfies 12 * c = 13 * time_saved (none gives 0; supply and
\* discharge give 155 minutes).
C11_SavingsFormula ==
    \A i \in 1..Len(requests) :
        LET r == requests[i] IN
        /\ r.time_saved = TableMinutes(Ids(r.agents_used))
        /\ r.cost_saved[2] > 0
        /\ 12 * r.cost_saved[1] = 13 * r.time_saved * r.cost_saved[2]
        /\ r.agents_used = <<>> => r.time_saved = 0 /\ r.cost_saved[1] = 0
        /\ Ids(r.agents_used) = {"supply_chain_agent", "discharge_agent"}
             => r.time_saved = 155

\* C11 witness: a list that names discharge twice and supply once was logged with
\* 155 minutes.
C11_Witness ==
    /\ Len(requests) = 1
    /\ requests[1].agents_used = <<"discharge_agent", "supply_chain_agent", "discharge_agent">>
    /\ requests[1].time_saved = 155

\* the reply of the end-to-end scenario: "supply_chain" and "clinical", neither
\* "discharge" nor "HIGH"
ScenarioReply == <<"s","u","p","p","l","y","_","c","h","a","i","n","_","a","g","e","n","t",","," ","c","l","i","n","i","c","a","l","_","a","g","e","n","t"," ","M","E","D","I","U","M">>

\* the responder ids behind the responders' service calls of the latest call
InvokedAgents ==
    {r.agent : r \in {x \in Ids(ResponderOrder) : \E c \in ResponderCalls : c.client = x.client}}

\* C12: the record a classified call appends names in agents_used exactly the
\* responders whose service was called in that call, each once, and its
\* time_saved is the sum of their table minutes; the scenario reply gives
\* supply and clinical, MEDIUM, two responder calls and 47 minutes.
C12_RecordListsInvoked ==
    (pc = "idle" /\ Classified)
    => LET r == requests[Len(requests)] IN
       /\ r.timestamp = clock
       /\ Ids(r.agents_used) = InvokedAgents
       /\ Len(r.agents_used) = Cardinality(InvokedAgents)
       /\ r.time_saved = TableMinutes(InvokedAgents)
       /\ ClassifierOutcome.content = ScenarioReply
            => /\ routing.agents_needed = <<"supply_chain_agent", "clinical_agent">>
               /\ routing.priority = "MEDIUM"
               /\ Len(calls) = 3
               /\ r.time_saved = 47

\* C12 witness: the scenario reply was coordinated and logged with 47 minutes.
C12_Witness ==
    /\ pc = "idle"
    /\ Classified
    /\ ClassifierOutcome.content = ScenarioReply
    /\ Cardinality(ResponderCalls) = 2
    /\ requests[Len(requests)].time_saved = 47

RECURSIVE SeqSum(_)
\* the sum of a sequence of integers
SeqSum(xs) == IF xs = <<>> THEN 0 ELSE Head(xs) + SeqSum(Tail(xs))

\* the times, in seconds, and the minutes saved of the ledger's records, and
\* their costs saved in twelfths of a dollar
LedgerSeconds == SeqSum([i \in 1..Len(requests) |-> requests[i].response_time])
LedgerMinutes == SeqSum([i \in 1..Len(requests) |-> requests[i].time_saved])
LedgerTwelfths ==
    SeqSum([i \in 1..Len(requests) |->
              requests[i].cost_saved[1] * (12 \div requests[i].cost_saved[2])])

\* v is the exact value n/d
IsExactly(v, n, d) == v[1] * d = n * v[2]

\* v is a multiple of 1/100 no further than 1/200 from n/d
IsRounded(v, n, d) ==
    /\ (v[1] * 100) % v[2] = 0
    /\ 200 * Abs(v[1] * d - n * v[2]) <= v[2] * d

\* C13 as stated: the statistics of a ledger of N records are N, the mean of the
\* response times and the sums of the time saved (here in hours) and of the cost
\* saved, exactly.
C13_StatsExact ==
    ("stats" \in DOMAIN queried /\ requests # <<>>)
    => LET st == queried.stats
           N == Len(requests)
       IN  /\ st.total_requests = N
           /\ IsExactly(st.avg_response_time, LedgerSeconds, N)
           /\ IsExactly(st.total_time_saved_hours, LedgerMinutes, 60)
           /\ IsExactly(st.total_cost_saved, LedgerTwelfths, 12)

\* C13 amended: the statistics of a ledger of N records are N and, each rounded
\* to two decimals, the mean of the response times, the time saved in hours and
\* the cost saved; for the empty ledger every field returned is zero.
C13_StatsRounded ==
    "stats" \in DOMAIN queried
    => LET st == queried.stats
           N == Len(requests)
       IN  /\ st.total_requests = N
           /\ N > 0 => /\ IsRounded(st.avg_response_time, LedgerSeconds, N)
                       /\ IsRounded(st.total_time_saved_hours, LedgerMinutes, 60)
                       /\ IsRounded(st.total_cost_saved, LedgerTwelfths, 12)
           /\ N = 0 => \A k \in DOMAIN st \ {"total_requests"} : st[k] = <<0, 1>>

\* C13 witness: three records with response times 1, 1 and 2 were summarised with
\* a mean of 1.33.
C13_Witness ==
    /\ "stats" \in DOMAIN queried
    /\ Len(requests) = 3
    /\ LedgerSeconds = 4
    /\ queried.stats.avg_response_time = <<133, 100>>

\* C19: get_recent_requests(limit) returns the min(limit, N) newest records of a
\* ledger of N records, in append order, and never more than limit records.
C19_RecentIsNewestMin ==
    "recent" \in DOMAIN queried
    => LET N == Len(requests)
           n == IF queried.limit < N THEN queried.limit ELSE N
       IN  /\ Len(queried.recent) <= queried.limit
           /\ queried.recent = SubSeq(requests, N - n + 1, N)

\* C14: a finished process_request call has made one classifier service call,
\* first, and then one service call for each responder in agents_needed and no
\* other: 1 + |agents_needed| calls, 1 when the classifier failed; and over the
\* whole run the clock, which every service call advances by one hour, shows one
\* classifier call per process_request call plus one call per responder of each
\* logged record, whatever failed and whatever was requested before.
C14_NoRetryNoReplay ==
    (pc = "idle" /\ nCalls > 0)
    => /\ calls[1].client = "orchestrator"
       /\ \A i \in 2..Len(calls) : calls[i].client # "orchestrator"
       /\ Len(calls) = 1 + Len(routing.agents_needed)
       /\ ClassifierOutcome.kind = "raise" => Len(calls) = 1
       /\ clock = SecondsPerHour
                    * (nCalls + SeqSum([i \in 1..Len(requests) |->
                                           Len(requests[i].agents_used)]))

\* C14 witness: the same request was coordinated twice, the second time with a
\* failed responder call among its four service calls.
C14_Witness ==
    /\ pc = "idle"
    /\ nCalls = 2
    /\ Len(requests) = 2
    /\ requests[1].request_type = requests[2].request_type
    /\ Len(calls) = 4
    /\ \E c \in ResponderCalls : c.outcome.kind = "raise"

\* C15: the result of a call that got past the classifier holds the routing, the
\* responders' results, the status and the statistics, and the statistics count
\* this call's record: total_requests is the ledger's length with it, and the
\* totals are those of the whole ledger, its time and cost saved included.
C15_ResultCarriesFreshStats ==
    (pc = "idle" /\ Classified)
    => LET st == returned.metrics
           last == requests[Len(requests)]
       IN  /\ DOMAIN returned = {"routing", "results", "status", "metrics"}
           /\ returned.routing = routing
           /\ returned.results = results
           /\ returned.status = last.status
           /\ last.timestamp = clock
           /\ st.total_requests = Len(requests)
           /\ IsRounded(st.avg_response_time, LedgerSeconds, Len(requests))
           /\ IsRounded(st.total_time_saved_hours, LedgerMinutes, 60)
           /\ IsRounded(st.total_cost_saved, LedgerTwelfths, 12)

\* C15 witness: the second classified call returned statistics of two records,
\* its own 47 minutes making the total differ from that of the first record.
C15_Witness ==
    /\ pc = "idle"
    /\ Classified
    /\ Len(requests) = 2
    /\ returned.metrics.total_requests = 2
    /\ requests[2].time_saved = 47
    /\ requests[1].time_saved = 120
    /\ returned.metrics.total_time_saved_hours = <<139, 50>>

\* C17: the inventory and the patient records are those of start-up in every
\* state, and the only patient id on file is patient_123.
C17_StaticDataUnchanged ==
    /\ inventory = InitInventory
    /\ patients = InitPatients
    /\ DOMAIN patients = {"patient_123"}

\* C17 witness: a call for the unknown patient_302 had its supply check succeed
\* and its safety check fail, and the data are as at start-up.
C17_Witness ==
    /\ pc = "idle"
    /\ Classified
    /\ patient_id = "patient_302"
    /\ "supply_chain" \in DOMAIN results
    /\ ~has_error(results["supply_chain"])
    /\ "clinical" \in DOMAIN results
    /\ has_error(results["clinical"])
    /\ inventory.blood_o_positive = 50
    /\ "patient_302" \notin DOMAIN patients

\* C18: the record of a classified call names agents_needed and the savings of
\* its table minutes whatever the status, and two records with the same
\* agents_used have the same time_saved and cost_saved whatever their statuses.
C18_SavingsIgnoreFailures ==
    /\ (pc = "idle" /\ Classified)
       => LET last == requests[Len(requests)] IN
          /\ last.agents_used = routing.agents_needed
          /\ last.time_saved = TableMinutes(Ids(routing.agents_needed))
          /\ 12 * last.cost_saved[1] = 13 * last.time_saved * last.cost_saved[2]
          /\ last.status = IF \E k \in DOMAIN results : has_error(results[k])
                           THEN "review_required" ELSE "approved"
    /\ \A i, j \in 1..Len(requests) :
        requests[i].agents_used = requests[j].agents_used
        => /\ requests[i].time_saved = requests[j].time_saved
           /\ requests[i].cost_saved = requests[j].cost_saved

\* C18 witness: two calls for supply and clinical, the first approved, the second
\* with both responders failed, were logged with the same 47 minutes.
C18_Witness ==
    /\ pc = "idle"
    /\ Classified
    /\ Len(requests) = 2
    /\ requests[1].agents_used = <<"supply_chain_agent", "clinical_agent">>
    /\ requests[2].agents_used = requests[1].agents_used
    /\ requests[1].status = "approved"
    /\ requests[2].status = "review_required"
    /\ \A k \in DOMAIN results : has_error(results[k])
    /\ requests[2].time_saved = 47
    /\ requests[2].cost_saved = requests[1].cost_saved

\* C16: two direct invocations of the same responder with the same arguments and
\* the same reply text returned the same dict, one with no error and the status
\* of a finished analysis or plan, whatever was invoked between them.
C16_ResponderDeterministic ==
    \A i, j \in 1..Len(invocations) :
        LET a == invocations[i]
            b == invocations[j]
        IN  (/\ a.responder = b.responder
             /\ a.args = b.args
             /\ a.outcome.kind = "reply"
             /\ a.outcome = b.outcome)
            => /\ a.result = b.result
               /\ ~has_error(a.result)
               /\ a.result.status \in {"analyzed", "plan_created"}

\* C16 witness: the supply check ran twice on the same items with the same reply,
\* a failed safety check for the unknown patient_302 between the two, and
\* returned the same dict.
C16_Witness ==
    /\ Len(invocations) = 3
    /\ invocations[1].responder = "supply_chain"
    /\ invocations[1].outcome.kind = "reply"
    /\ invocations[3].responder = "supply_chain"
    /\ invocations[3].args = invocations[1].args
    /\ invocations[3].outcome = invocations[1].outcome
    /\ invocations[2].responder = "clinical"
    /\ invocations[2].args[1] = "patient_302"
    /\ has_error(invocations[2].result)
    /\ invocations[3].result = invocations[1].result
    /\ invocations[3].result.current_inventory = InitInventory

====
